---- MODULE Spec2Model ----
(***************************************************************************)
(* The interview turn-taking workflow of the mock-interview application:   *)
(* the Interview page (src/src/pages/Interview.tsx) driving the persisted  *)
(* interviews / questions / answers rows through the generation proxy.     *)
(*                                                                         *)
(* Every async function of the page is an entry of `tasks`: a call that    *)
(* is suspended at one of its awaits, together with the values its closure *)
(* captured.  A step of the model is the code between two awaits.  A       *)
(* component that was unmounted by an in-app navigation keeps its          *)
(* suspended calls (they still write to the database, their setState calls *)
(* are no-ops); a browser reload drops them.                               *)
(*                                                                         *)
(* Scores are decimals with one fractional digit, held in tenths (8.0 is   *)
(* 80), as the DECIMAL(3,1) columns hold them.                             *)
(***************************************************************************)
EXTENDS Integers, Sequences, FiniteSets, Bags, TLC

\* ---------------------------------------------------------------- bounds
\* total_questions is drawn from 1..MaxTotal (the setup page offers 5, 10
\* and 15; the workflow only compares counts against it).
MaxTotal == 2
\* how many disturbances one behaviour of Spec has: an external call
\* (generation or persistence) that fails or returns a response that is not
\* of the expected form, a reload of the page, a navigation away from it, a
\* press of Enter while a submit is outstanding
MaxDisturbances == 1
\* the same for SpecWide
WideDisturbances == 2
\* the number of rows a table of SpecOwnership can hold
MaxRows == 2

\* ------------------------------------------------------------- constants
\* a nullable column or an optional field: <<>> when absent, <<v>> when set
Null == <<>>
Some(v) == <<v>>
\* the neutral score of handleSubmitAnswer / generateFinalFeedback, in tenths
DefaultScore == 50
\* the score a well-formed evaluate_answer response carries, in tenths
EvalScore == 80
\* the overallScore a well-formed generate_feedback response carries
FeedbackScore == 70
\* a number the generation service returns as score although the prompt asks
\* for 1-10: 15
OutOfRangeScore == 150
\* the scores the prompts ask for, 1-10, in tenths
ScoreRange == 10..100

VARIABLES
    interviewRow,       \* the persisted interviews row: <<>> before creation,
                        \* <<row>> after
    questions,          \* the persisted questions rows in creation order,
                        \* each with its answers rows in creation order
    view,               \* the route that is mounted
    finalRole,          \* Setup: the role chosen or typed (jobRole, or
                        \* customRole when jobRole is 'custom')
    interview,          \* useState: <<>> for null, <<interviewData>> once loaded
    qaHistory,          \* useState: the Q&A turns shown as history
    currentQuestion,    \* useState: text of the question shown, "" if none
    currentQuestionId,  \* useState: id of the question shown, 0 if none
    userAnswer,         \* useState: the text typed into the answer box
    isLoading,          \* useState
    isGenerating,       \* useState
    isSubmitting,       \* useState
    questionNumber,     \* useState
    tasks,              \* bag of suspended async calls
    budget,             \* number of disturbances the behaviour may still have
    proxy,              \* the generation proxy (edge function): <<>>, or
                        \* <<exchange>> with the last request it served and
                        \* its response
    store,              \* the tables interviews, questions and answers with
                        \* the rows of all users
    reply,              \* <<>>, or <<r>> with the last request to the tables
                        \* and what the database returned for it
    redirects           \* the number of redirects between the Interview and
                        \* the Results route since the user last went to a
                        \* page

dbVars == <<interviewRow, questions>>
sessionVars == <<interview, qaHistory, currentQuestion, currentQuestionId,
                 userAnswer, isLoading, isGenerating, isSubmitting,
                 questionNumber>>
vars == <<interviewRow, questions, view, finalRole, interview, qaHistory,
          currentQuestion, currentQuestionId, userAnswer, isLoading,
          isGenerating, isSubmitting, questionNumber, tasks, budget, proxy, store, reply,
          redirects>>
\* the state outside the browser session and its database rows; the steps of
\* the pages leave it as it is
serverVars == <<proxy, store, reply>>
\* the state of the pages of one user on one interview
pageVars == <<interviewRow, questions, view, finalRole, interview, qaHistory,
              currentQuestion, currentQuestionId, userAnswer, isLoading,
              isGenerating, isSubmitting, questionNumber, tasks, budget,
              redirects>>

\* ------------------------------------------------------------ data shapes
\* the users of the persistence layer (auth.uid())
Users == {"A", "B"}
\* the ids a row of a table can have
RowIds == 1..MaxRows
\* the tables as sets of rows
EmptyStore == [interviews |-> {}, questions |-> {}, answers |-> {}]
Statuses == {"in_progress", "completed", "cancelled"}
\* what the answer box can hold: nothing, white space, or an answer
AnswerTexts == {"", " ", "a"}
\* what the role of the Setup page can be: nothing, white space, or a role
Roles == {"", " ", "r"}
\* the content the model gateway can return for generate_question: nothing,
\* white space, a question, a question in white space
QuestionResponses == {"", " ", "q", " q "}
\* the responses that hold a question
UsableQuestions == {"q", " q "}

\* String.prototype.trim() on the texts of the model
Trim(s) ==
    CASE s = " " -> ""
      [] s = " q " -> "q"
      [] OTHER -> s

\* the row handleStartInterview inserts for the user, with the role "r" and
\* the difficulty and interview type the Setup page starts with; the columns
\* it does not name take the defaults of the interviews table, which are NULL
NewInterviewRow(total) ==
    [user_id |-> "A", job_role |-> "r", difficulty |-> "mid",
     interview_type |-> "behavioral",
     status |-> "in_progress", total_questions |-> total,
     overall_score |-> Null, strengths |-> Null, improvements |-> Null,
     completed_at |-> Null]

\* ids of the persisted questions: the position in creation order
QuestionIds == 1..Len(questions)

\* ------------------------------------------------------------ task bag
\* kind: the async function; pc: the await it is suspended at; live: its
\* component is still mounted; hist, qid, text, answer: the history, question
\* id, question text and answer text it holds; score, strengths,
\* improvements: what it parsed from the generation response
Task(kind, pc, live, hist, qid, text, answer) ==
    [kind |-> kind, pc |-> pc, live |-> live, hist |-> hist, qid |-> qid,
     text |-> text, answer |-> answer, score |-> 0, strengths |-> <<>>,
     improvements |-> <<>>]

FetchTask == Task("fetch", "interview", TRUE, <<>>, 0, "", "")

NumTasks == BagCardinality(tasks)
Add(B, t) == B (+) SetToBag({t})
Remove(B, t) == B (-) SetToBag({t})
Replace(B, t, u) == Add(Remove(B, t), u)

\* the suspended calls after their component was unmounted
OrphanAll(B) ==
    LET S == {[t EXCEPT !.live = FALSE] : t \in BagToSet(B)}
    IN  [u \in S |-> CopiesIn(u, B) + CopiesIn([u EXCEPT !.live = TRUE], B)]

\* ------------------------------------------------- reading the questions
\* .order('question_order', {ascending: true}): every order of the rows in
\* which question_order does not decrease (rows of equal order come back in
\* an order the database chooses)
ReadOrders ==
    LET n == Len(questions)
    IN  {p \in [1..n -> 1..n] :
            /\ \A i, j \in 1..n : i # j => p[i] # p[j]
            /\ \A i, j \in 1..n :
                 i < j => questions[p[i]].question_order
                            <= questions[p[j]].question_order}

MoveToFront(s, i) == <<s[i]>> \o SubSeq(s, 1, i - 1) \o SubSeq(s, i + 1, Len(s))

\* answers(*): the embedded answers of one question carry no order clause,
\* so any of them may come first
AnswerOrders(answers) ==
    IF answers = <<>> THEN {<<>>}
    ELSE {MoveToFront(answers, i) : i \in 1..Len(answers)}

\* the result of select('*, answers(*)') on the questions of the interview:
\* ok is FALSE when the request failed (data is null then)
QuestionsRead ==
    {[ok |-> TRUE,
      rows |-> [k \in 1..Len(questions) |->
                  [id |-> p[k],
                   question_order |-> questions[p[k]].question_order,
                   question_text |-> questions[p[k]].question_text,
                   answers |-> a[p[k]]]]] :
        p \in ReadOrders,
        a \in {f \in [QuestionIds -> UNION {AnswerOrders(questions[i].answers) : i \in QuestionIds}] :
                 \A i \in QuestionIds : f[i] \in AnswerOrders(questions[i].answers)}}

FailedRead == [ok |-> FALSE, rows |-> <<>>]

\* ---------------------------------------------------------- fetchInterview
\* questionsData.map(q => ({...})): one QA per question row; a missing score
\* (no answer, or a score of 0) is undefined
ExistingQA(rows) ==
    [k \in 1..Len(rows) |->
        [question |-> rows[k].question_text,
         questionId |-> rows[k].id,
         answer |-> IF rows[k].answers = <<>> THEN ""
                    ELSE rows[k].answers[1].answer_text,
         score |-> IF rows[k].answers = <<>> \/ rows[k].answers[1].score = 0
                   THEN Null ELSE Some(rows[k].answers[1].score)]]

\* fetchInterview if it compared with <= where it compares with <: with every
\* question answered it would ask for one more question
ResumeDecisionNeverFinal(interviewData, questionsData, old) ==
    LET rows == questionsData.rows
        n == Len(rows)
        existingQA == ExistingQA(rows)
    IN  IF questionsData.ok /\ n > 0
        THEN IF rows[n].answers = <<>>
             THEN [qaHistory |-> SubSeq(existingQA, 1, n - 1),
                   questionNumber |-> n,
                   currentQuestion |-> rows[n].question_text,
                   currentQuestionId |-> rows[n].id,
                   call |-> "none", arg |-> <<>>]
             ELSE [qaHistory |-> existingQA, questionNumber |-> n + 1,
                   currentQuestion |-> old.currentQuestion,
                   currentQuestionId |-> old.currentQuestionId,
                   call |-> "generateNextQuestion", arg |-> existingQA]
        ELSE [qaHistory |-> old.qaHistory,
              questionNumber |-> old.questionNumber,
              currentQuestion |-> old.currentQuestion,
              currentQuestionId |-> old.currentQuestionId,
              call |-> "generateNextQuestion", arg |-> <<>>]

\* the branch fetchInterview takes on the rows it read and the state it
\* sets (old: the state before): call is the function it invokes next, with
\* arg as the history it passes
ResumeDecision(interviewData, questionsData, old) ==
    LET rows == questionsData.rows
        n == Len(rows)
        existingQA == ExistingQA(rows)
    IN  IF questionsData.ok /\ n > 0
        THEN IF rows[n].answers = <<>>
             THEN [qaHistory |-> SubSeq(existingQA, 1, n - 1),
                   questionNumber |-> n,
                   currentQuestion |-> rows[n].question_text,
                   currentQuestionId |-> rows[n].id,
                   call |-> "none", arg |-> <<>>]
             ELSE IF n < interviewData.total_questions
             THEN [qaHistory |-> existingQA, questionNumber |-> n + 1,
                   currentQuestion |-> old.currentQuestion,
                   currentQuestionId |-> old.currentQuestionId,
                   call |-> "generateNextQuestion", arg |-> existingQA]
             ELSE [qaHistory |-> existingQA, questionNumber |-> n + 1,
                   currentQuestion |-> old.currentQuestion,
                   currentQuestionId |-> old.currentQuestionId,
                   call |-> "generateFinalFeedback", arg |-> existingQA]
        ELSE [qaHistory |-> old.qaHistory,
              questionNumber |-> old.questionNumber,
              currentQuestion |-> old.currentQuestion,
              currentQuestionId |-> old.currentQuestionId,
              call |-> "generateNextQuestion", arg |-> <<>>]

\* ------------------------------------------------------- mount and unmount
\* the useState initial values of the Interview component
FreshSession ==
    /\ interview' = <<>>
    /\ qaHistory' = <<>>
    /\ currentQuestion' = ""
    /\ currentQuestionId' = 0
    /\ userAnswer' = ""
    /\ isLoading' = TRUE
    /\ isGenerating' = FALSE
    /\ isSubmitting' = FALSE
    /\ questionNumber' = 1

\* the Interview route is entered: a new component instance, whose effect
\* calls fetchInterview; remaining: the calls that outlive the navigation
Mount(remaining) ==
    /\ view' = "interview"
    /\ finalRole' = ""
    /\ FreshSession
    /\ tasks' = Add(remaining, FetchTask)
    /\ redirects' = 0

\* navigate(route) to another page: the Interview component, if mounted, is
\* unmounted and its state is gone; its suspended calls go on
LeaveTo(route, remaining) ==
    /\ view' = route
    /\ finalRole' = ""
    /\ FreshSession
    /\ tasks' = OrphanAll(remaining)
    /\ redirects' = 0

\* the call t of fetchInterview finds the interview completed: navigate to
\* the Results route, as LeaveTo, but this navigation is a redirect: one
\* more in a row when it is the page shown that redirects, a first one when
\* t is a call of a component that is gone.  Such a call may navigate to the
\* route that is shown already, which mounts nothing
RedirectToResults(t) ==
    IF view = "results"
    THEN /\ tasks' = Remove(tasks, t)
         /\ UNCHANGED <<view, redirects, finalRole, sessionVars>>
    ELSE /\ view' = "results"
         /\ finalRole' = ""
         /\ FreshSession
         /\ tasks' = OrphanAll(Remove(tasks, t))
         /\ redirects' = IF t.live THEN redirects + 1 ELSE 1

\* the call t of fetchResults finds the interview not completed: navigate
\* to the Interview route, as Mount, but this navigation is a redirect
RedirectToInterview(t) ==
    IF view = "interview"
    THEN /\ tasks' = Remove(tasks, t)
         /\ UNCHANGED <<view, redirects, finalRole, sessionVars>>
    ELSE /\ view' = "interview"
         /\ finalRole' = ""
         /\ FreshSession
         /\ tasks' = Add(OrphanAll(Remove(tasks, t)), FetchTask)
         /\ redirects' = IF t.live THEN redirects + 1 ELSE 1

\* a disturbance happens, within the budget of the behaviour
Disturbed ==
    /\ budget > 0
    /\ budget' = budget - 1
    /\ UNCHANGED serverVars

\* an external call fails
Fails == Disturbed

\* an external call returns resp, which is of the expected form or not
Returns(resp, conforming) ==
    IF resp \in conforming THEN UNCHANGED <<budget, serverVars>> ELSE Fails

\* ---------------------------------------------- Setup: handleStartInterview
\* the user picks a role from the list or types a custom one
ChooseRole ==
    /\ view = "setup"
    /\ \E role \in Roles \ {finalRole} : finalRole' = role
    /\ UNCHANGED <<dbVars, view, redirects, sessionVars, tasks, budget, serverVars>>

\* the start button: a role that is blank after trim() is rejected with a
\* toast; else the interviews row is inserted and the Interview page opened
StartInterview ==
    /\ view = "setup"
    /\ IF Trim(finalRole) = ""
       THEN UNCHANGED vars
       ELSE \/ /\ Fails
               /\ UNCHANGED <<dbVars, view, redirects, finalRole, sessionVars, tasks>>
            \/ /\ \E total \in 1..MaxTotal :
                     interviewRow' = <<[NewInterviewRow(total) EXCEPT
                                          !.job_role = finalRole]>>
               /\ Mount(tasks)
               /\ UNCHANGED <<questions, budget, serverVars>>

\* --------------------------------------------------------- fetchInterview
\* fetchInterview if it did not look at the status of the row
FetchInterviewRowAnyStatus(t) ==
    /\ t.kind = "fetch" /\ t.pc = "interview"
    /\ \/ /\ Fails
          /\ LeaveTo("dashboard", Remove(tasks, t))
          /\ UNCHANGED dbVars
       \/ /\ interview' = IF t.live
                          THEN <<[total_questions |-> interviewRow[1].total_questions,
                                  status |-> interviewRow[1].status]>>
                          ELSE interview
          /\ tasks' = Replace(tasks, t, [t EXCEPT !.pc = "questions"])
          /\ UNCHANGED <<dbVars, view, redirects, finalRole, qaHistory, currentQuestion,
                         currentQuestionId, userAnswer, isLoading,
                         isGenerating, isSubmitting, questionNumber, budget, serverVars>>

\* the interviews select returned
FetchInterviewRow(t) ==
    /\ t.kind = "fetch" /\ t.pc = "interview"
    /\ \/ /\ Fails
          /\ LeaveTo("dashboard", Remove(tasks, t))
          /\ UNCHANGED dbVars
       \/ /\ interviewRow[1].status = "completed"
          /\ RedirectToResults(t)
          /\ UNCHANGED <<dbVars, budget, serverVars>>
       \/ /\ interviewRow[1].status # "completed"
          /\ interview' = IF t.live
                          THEN <<[total_questions |-> interviewRow[1].total_questions,
                                  status |-> interviewRow[1].status]>>
                          ELSE interview
          /\ tasks' = Replace(tasks, t, [t EXCEPT !.pc = "questions"])
          /\ UNCHANGED <<dbVars, view, redirects, finalRole, qaHistory, currentQuestion,
                         currentQuestionId, userAnswer, isLoading,
                         isGenerating, isSubmitting, questionNumber, budget, serverVars>>

\* the task a call of generateNextQuestion / generateFinalFeedback leaves
\* suspended at its invoke of the generation proxy
Called(call, live, hist) ==
    IF call = "generateNextQuestion"
    THEN {Task("gen", "invoke", live, hist, 0, "", "")}
    ELSE IF call = "generateFinalFeedback"
    THEN {Task("final", "invoke", live, hist, 0, "", "")}
    ELSE {}

\* the questions select returned: the rest of fetchInterview
FetchQuestions(t) ==
    /\ t.kind = "fetch" /\ t.pc = "questions"
    /\ \E r \in QuestionsRead \cup {FailedRead} :
        /\ IF r.ok THEN UNCHANGED <<budget, serverVars>> ELSE Fails
        /\ LET d == ResumeDecision(
                      [total_questions |-> interviewRow[1].total_questions],
                      r,
                      [qaHistory |-> qaHistory,
                       questionNumber |-> questionNumber,
                       currentQuestion |-> currentQuestion,
                       currentQuestionId |-> currentQuestionId])
           IN  /\ tasks' = Remove(tasks, t) (+) SetToBag(Called(d.call, t.live, d.arg))
               /\ IF t.live
                  THEN /\ qaHistory' = d.qaHistory
                       /\ questionNumber' = d.questionNumber
                       /\ currentQuestion' = d.currentQuestion
                       /\ currentQuestionId' = d.currentQuestionId
                       /\ isGenerating' = (d.call # "none" \/ isGenerating)
                       /\ isLoading' = FALSE
                  ELSE UNCHANGED <<qaHistory, questionNumber, currentQuestion,
                                   currentQuestionId, isGenerating, isLoading>>
    /\ UNCHANGED <<dbVars, view, redirects, finalRole, interview, userAnswer, isSubmitting>>

\* ----------------------------------------------------- generateNextQuestion
\* generateNextQuestion if it numbered every question 1
NewQuestionRowOrderOne(text, history) ==
    [question_order |-> 1, question_text |-> text, answers |-> <<>>]

\* the row generateNextQuestion inserts
NewQuestionRow(text, history) ==
    [question_order |-> Len(history) + 1, question_text |-> text,
     answers |-> <<>>]

\* generateNextQuestion if its insert ran although the invoke returned an
\* error
GenerateQuestionFailsButInserts(t) ==
    /\ Fails
    /\ tasks' = Remove(tasks, t)
    /\ isGenerating' = IF t.live THEN FALSE ELSE isGenerating
    /\ questions' = Append(questions, NewQuestionRow("", t.hist))

\* the invoke of generate_question returned an error (the proxy answers 500
\* when the gateway fails or returns no content), or the questions insert
\* failed: the catch block and the finally block
GenerateQuestionFails(t) ==
    /\ Fails
    /\ tasks' = Remove(tasks, t)
    /\ isGenerating' = IF t.live THEN FALSE ELSE isGenerating
    /\ UNCHANGED questions

\* the invoke of generate_question returned content as result and the
\* questions insert was executed by the database
GenerateQuestionReturns(t, content) ==
    LET questionText == Trim(content)
    IN  /\ Returns(content, UsableQuestions)
        /\ questions' = Append(questions, NewQuestionRow(questionText, t.hist))
        /\ tasks' = Replace(tasks, t,
                      [t EXCEPT !.pc = "saved", !.text = questionText,
                                !.qid = Len(questions) + 1])
        /\ UNCHANGED isGenerating

\* the invoke of generate_question returned (an error, or a result) and,
\* after a result, the questions insert was executed by the database (or
\* failed).  The return of the invoke changes nothing outside the call, so
\* it is one step with the insert that follows it.
GenerateQuestion(t) ==
    /\ t.kind = "gen" /\ t.pc = "invoke"
    /\ \/ GenerateQuestionFails(t)
       \/ \E content \in QuestionResponses :
             IF content = ""
             THEN GenerateQuestionFails(t)
             ELSE GenerateQuestionReturns(t, content)
    /\ UNCHANGED <<interviewRow, view, redirects, finalRole, interview, qaHistory, currentQuestion,
                   currentQuestionId, userAnswer, isLoading, isSubmitting,
                   questionNumber>>

\* the insert returned the saved row: the rest of generateNextQuestion
QuestionSaved(t) ==
    /\ t.kind = "gen" /\ t.pc = "saved"
    /\ tasks' = Remove(tasks, t)
    /\ IF t.live
       THEN /\ currentQuestion' = t.text
            /\ currentQuestionId' = t.qid
            /\ questionNumber' = Len(t.hist) + 1
            /\ isGenerating' = FALSE
       ELSE UNCHANGED <<currentQuestion, currentQuestionId, questionNumber,
                        isGenerating>>
    /\ UNCHANGED <<dbVars, view, redirects, finalRole, interview, qaHistory, userAnswer, isLoading,
                   isSubmitting, budget, serverVars>>

\* ------------------------------------------------------ handleSubmitAnswer
\* the Input Area is rendered
InputAreaVisible ==
    /\ view = "interview"
    /\ ~isLoading
    /\ interview # <<>>
    /\ currentQuestion # ""
    /\ ~isGenerating

\* the user types into the answer box
TypeAnswer ==
    /\ InputAreaVisible
    /\ Trim(userAnswer) = ""
    /\ \E text \in AnswerTexts \ {userAnswer} : userAnswer' = text
    /\ UNCHANGED <<dbVars, view, redirects, finalRole, interview, qaHistory, currentQuestion,
                   currentQuestionId, isLoading, isGenerating, isSubmitting,
                   questionNumber, tasks, budget, serverVars>>

\* handleSubmitAnswer if it did not trim the answer
HandleSubmitAnswerNoTrim ==
    IF userAnswer = "" \/ interview = <<>>
    THEN UNCHANGED <<dbVars, view, redirects, finalRole, sessionVars, tasks>>
    ELSE /\ isSubmitting' = TRUE
         /\ tasks' = Add(tasks, Task("submit", "invoke", TRUE, qaHistory,
                                     currentQuestionId, currentQuestion,
                                     userAnswer))
         /\ UNCHANGED <<dbVars, view, redirects, finalRole, interview, qaHistory,
                        currentQuestion, currentQuestionId, userAnswer,
                        isLoading, isGenerating, questionNumber>>

\* handleSubmitAnswer up to its first await
HandleSubmitAnswer ==
    IF Trim(userAnswer) = "" \/ interview = <<>>
    THEN UNCHANGED <<dbVars, view, redirects, finalRole, sessionVars, tasks>>
    ELSE /\ isSubmitting' = TRUE
         /\ tasks' = Add(tasks, Task("submit", "invoke", TRUE, qaHistory,
                                     currentQuestionId, currentQuestion,
                                     userAnswer))
         /\ UNCHANGED <<dbVars, view, redirects, finalRole, interview, qaHistory, currentQuestion,
                        currentQuestionId, userAnswer, isLoading,
                        isGenerating, questionNumber>>

\* the send button: disabled={!userAnswer.trim() || isSubmitting}
SubmitClick ==
    /\ InputAreaVisible
    /\ ~(Trim(userAnswer) = "" \/ isSubmitting)
    /\ HandleSubmitAnswer
    /\ UNCHANGED <<budget, serverVars>>

\* Enter (without Shift) in the answer box: onKeyDown calls
\* handleSubmitAnswer whatever isSubmitting is
SubmitEnter ==
    /\ InputAreaVisible
    /\ HandleSubmitAnswer
    /\ IF isSubmitting /\ Trim(userAnswer) # "" THEN Disturbed ELSE UNCHANGED <<budget, serverVars>>

\* what the evaluate_answer call can return as result: raw is the text;
\* json tells whether JSON.parse accepts it, and then score and feedback are
\* the fields of the parsed record, 0 and "" when the record has none; the
\* last record carries a score that is not in 1-10
EvalResponses ==
    {[raw |-> "text", json |-> FALSE, score |-> 0, feedback |-> ""],
     [raw |-> "{}", json |-> TRUE, score |-> 0, feedback |-> ""],
     [raw |-> "{score}", json |-> TRUE, score |-> EvalScore, feedback |-> ""],
     [raw |-> "{feedback}", json |-> TRUE, score |-> 0, feedback |-> "f"],
     [raw |-> "{score,feedback}", json |-> TRUE, score |-> EvalScore,
      feedback |-> "f"],
     [raw |-> "{score:15,feedback}", json |-> TRUE, score |-> OutOfRangeScore,
      feedback |-> "f"]}

\* the responses of the form the prompt asks for
WellFormedEvaluations ==
    {r \in EvalResponses :
        r.json /\ r.score \in ScoreRange /\ r.feedback # ""}

\* handleSubmitAnswer if a record without a score lost its feedback too
ParseEvaluationAllOrNothing(resp) ==
    IF resp.json /\ resp.score # 0 /\ resp.feedback # ""
    THEN [score |-> resp.score, feedback |-> resp.feedback]
    ELSE [score |-> DefaultScore, feedback |-> resp.raw]

\* feedback = parsed.feedback || feedbackData.result and score =
\* parsed.score || 5; the raw text and 5 when JSON.parse throws
ParseEvaluation(resp) ==
    IF resp.json
    THEN [score |-> IF resp.score # 0 THEN resp.score ELSE DefaultScore,
          feedback |-> IF resp.feedback # "" THEN resp.feedback ELSE resp.raw]
    ELSE [score |-> DefaultScore, feedback |-> resp.raw]

\* the row handleSubmitAnswer inserts
NewAnswerRow(answer, feedback, score) ==
    [answer_text |-> answer, ai_feedback |-> feedback, score |-> score]

\* handleSubmitAnswer if its insert ran although the invoke returned an error
EvaluateAnswerFailsButInserts(t) ==
    /\ Fails
    /\ tasks' = Remove(tasks, t)
    /\ isSubmitting' = IF t.live THEN FALSE ELSE isSubmitting
    /\ questions' = [questions EXCEPT ![t.qid].answers =
                        Append(@, NewAnswerRow(t.answer, "", DefaultScore))]

\* the invoke of evaluate_answer returned an error, or the answers insert
\* failed: the catch block and the finally block
EvaluateAnswerFails(t) ==
    /\ Fails
    /\ tasks' = Remove(tasks, t)
    /\ isSubmitting' = IF t.live THEN FALSE ELSE isSubmitting
    /\ UNCHANGED questions

\* the invoke of evaluate_answer returned resp as result and the answers
\* insert was executed by the database
EvaluateAnswerReturns(t, resp) ==
    LET parsed == ParseEvaluation(resp)
    IN  /\ Returns(resp, WellFormedEvaluations)
        /\ questions' = [questions EXCEPT ![t.qid].answers =
                            Append(@, NewAnswerRow(t.answer, parsed.feedback,
                                                   parsed.score))]
        /\ tasks' = Replace(tasks, t,
                      [t EXCEPT !.pc = "saved", !.score = parsed.score])
        /\ UNCHANGED isSubmitting

\* the invoke of evaluate_answer returned (an error, or a result) and, after
\* a result, the answers insert was executed by the database (or failed)
EvaluateAnswer(t) ==
    /\ t.kind = "submit" /\ t.pc = "invoke"
    /\ \/ EvaluateAnswerFails(t)
       \/ \E resp \in EvalResponses : EvaluateAnswerReturns(t, resp)
    /\ UNCHANGED <<interviewRow, view, redirects, finalRole, interview, qaHistory, currentQuestion,
                   currentQuestionId, userAnswer, isLoading, isGenerating,
                   questionNumber>>

\* the QA handleSubmitAnswer appends to the history
NewQA(t) ==
    [question |-> t.text, questionId |-> t.qid, answer |-> t.answer,
     score |-> Some(t.score)]

\* the branch at the end of handleSubmitAnswer
AfterAnswer(interviewData, updatedHistory) ==
    IF Len(updatedHistory) >= interviewData.total_questions
    THEN "generateFinalFeedback"
    ELSE "generateNextQuestion"

\* the insert returned the saved row: the rest of handleSubmitAnswer
AnswerSaved(t) ==
    /\ t.kind = "submit" /\ t.pc = "saved"
    /\ LET updatedHistory == Append(t.hist, NewQA(t))
           call == AfterAnswer(interviewRow[1], updatedHistory)
       IN  /\ tasks' = Remove(tasks, t) (+) SetToBag(Called(call, t.live, updatedHistory))
           /\ IF t.live
              THEN /\ qaHistory' = updatedHistory
                   /\ userAnswer' = ""
                   /\ currentQuestion' = ""
                   /\ isGenerating' = TRUE
                   /\ isSubmitting' = FALSE
              ELSE UNCHANGED <<qaHistory, userAnswer, currentQuestion,
                               isGenerating, isSubmitting>>
    /\ UNCHANGED <<dbVars, view, redirects, finalRole, interview, currentQuestionId, isLoading,
                   questionNumber, budget, serverVars>>

\* ---------------------------------------------------- generateFinalFeedback
\* qa.score || 5
ScoreOrDefault(qa) ==
    IF qa.score = Null \/ qa.score[1] = 0 THEN DefaultScore ELSE qa.score[1]

RECURSIVE SumScores(_)
\* history.reduce((sum, qa) => sum + (qa.score || 5), 0)
SumScores(history) ==
    IF history = <<>> THEN 0
    ELSE ScoreOrDefault(Head(history)) + SumScores(Tail(history))

\* the mean cut off after its first decimal place
RoundedMeanTruncated(history) ==
    SumScores(history) \div Len(history)

\* Math.round(avgScore * 10) / 10 in tenths: the mean rounded to the nearest
\* tenth, a half rounding up
RoundedMean(history) ==
    (2 * SumScores(history) + Len(history)) \div (2 * Len(history))

\* what the generate_feedback call can return as result: text that does not
\* parse, the text null (which JSON.parse accepts, and which has no fields
\* to read), a record without its fields, a complete record, a complete
\* record whose overallScore is not in 1-10
FeedbackResponses ==
    {[json |-> FALSE, isNull |-> FALSE, overallScore |-> 0, strengths |-> <<>>,
      improvements |-> <<>>],
     [json |-> TRUE, isNull |-> TRUE, overallScore |-> 0, strengths |-> <<>>,
      improvements |-> <<>>],
     [json |-> TRUE, isNull |-> FALSE, overallScore |-> 0, strengths |-> <<>>,
      improvements |-> <<>>],
     [json |-> TRUE, isNull |-> FALSE, overallScore |-> FeedbackScore,
      strengths |-> <<"s">>, improvements |-> <<"i">>],
     [json |-> TRUE, isNull |-> FALSE, overallScore |-> OutOfRangeScore,
      strengths |-> <<"s">>, improvements |-> <<"i">>]}

\* the responses of the form the prompt asks for
WellFormedFeedbacks ==
    {r \in FeedbackResponses : r.json /\ r.overallScore \in ScoreRange}

\* generateFinalFeedback if a record without overallScore got the mean
ParseFeedbackMeanWhenMissing(resp, history) ==
    IF resp.json /\ ~resp.isNull /\ resp.overallScore # 0
    THEN [overallScore |-> resp.overallScore,
          strengths |-> resp.strengths, improvements |-> resp.improvements]
    ELSE [overallScore |-> RoundedMean(history), strengths |-> resp.strengths,
          improvements |-> resp.improvements]

\* the overallScore, strengths and improvements generateFinalFeedback takes
\* from the response (a missing list is [] already in the response records).
\* The catch runs when JSON.parse throws and also when the parsed value is
\* null: reading parsed.overallScore throws a TypeError inside the try
ParseFeedback(resp, history) ==
    IF resp.json /\ ~resp.isNull
    THEN [overallScore |-> IF resp.overallScore # 0 THEN resp.overallScore
                           ELSE DefaultScore,
          strengths |-> resp.strengths, improvements |-> resp.improvements]
    ELSE [overallScore |-> RoundedMean(history), strengths |-> <<>>,
          improvements |-> <<>>]

\* an update that also sets total_questions to the number of answers
CompletedRowSetsTotal(row, overallScore, strengths, improvements) ==
    [row EXCEPT !.status = "completed",
                !.overall_score = Some(overallScore),
                !.strengths = Some(strengths),
                !.improvements = Some(improvements),
                !.completed_at = Some(1),
                !.total_questions = 0]

\* an update that leaves completed_at out
CompletedRowNoTimestamp(row, overallScore, strengths, improvements) ==
    [row EXCEPT !.status = "completed",
                !.overall_score = Some(overallScore),
                !.strengths = Some(strengths),
                !.improvements = Some(improvements)]

\* new Date().toISOString() at an update of the row: a time after the time
\* of every earlier update, times being counted in updates
Now(row) ==
    IF row.completed_at = Null THEN 1 ELSE row.completed_at[1] + 1

\* the row after generateFinalFeedback's update({...}).eq('id', id)
CompletedRow(row, overallScore, strengths, improvements) ==
    [row EXCEPT !.status = "completed",
                !.overall_score = Some(overallScore),
                !.strengths = Some(strengths),
                !.improvements = Some(improvements),
                !.completed_at = Some(Now(row))]

\* the invoke of generate_feedback returned an error, or the interviews
\* update failed: the catch block and the finally block
FinalFeedbackFails(t) ==
    /\ Fails
    /\ tasks' = Remove(tasks, t)
    /\ isGenerating' = IF t.live THEN FALSE ELSE isGenerating
    /\ UNCHANGED interviewRow

\* the invoke of generate_feedback returned resp as result and the interviews
\* update was executed by the database
FinalFeedbackReturns(t, resp) ==
    LET parsed == ParseFeedback(resp, t.hist)
    IN  /\ Returns(resp, WellFormedFeedbacks)
        /\ interviewRow' = <<CompletedRow(interviewRow[1],
                               parsed.overallScore, parsed.strengths,
                               parsed.improvements)>>
        /\ tasks' = Replace(tasks, t,
                      [t EXCEPT !.pc = "saved",
                                !.score = parsed.overallScore,
                                !.strengths = parsed.strengths,
                                !.improvements = parsed.improvements])
        /\ UNCHANGED isGenerating

\* the invoke of generate_feedback returned (an error, or a result) and,
\* after a result, the interviews update was executed by the database (or
\* failed)
FinalFeedback(t) ==
    /\ t.kind = "final" /\ t.pc = "invoke"
    /\ \/ FinalFeedbackFails(t)
       \/ \E resp \in FeedbackResponses : FinalFeedbackReturns(t, resp)
    /\ UNCHANGED <<questions, view, redirects, finalRole, interview, qaHistory, currentQuestion,
                   currentQuestionId, userAnswer, isLoading, isSubmitting,
                   questionNumber>>

\* the update returned: navigate to the results page
InterviewUpdated(t) ==
    /\ t.kind = "final" /\ t.pc = "saved"
    /\ LeaveTo("results", Remove(tasks, t))
    /\ UNCHANGED <<dbVars, budget, serverVars>>

\* ------------------------------------------------------------- navigation
\* the browser reloads the Interview page: every suspended call is gone
Reload ==
    /\ view = "interview"
    /\ Disturbed
    /\ Mount(EmptyBag)
    /\ UNCHANGED dbVars

\* the Exit button of the Interview page: navigate('/dashboard')
Exit ==
    /\ view = "interview"
    /\ ~isLoading
    /\ interview # <<>>
    /\ Disturbed
    /\ LeaveTo("dashboard", tasks)
    /\ UNCHANGED dbVars

\* the interview is opened again from the dashboard (or by its URL)
OpenInterview ==
    /\ view \in {"dashboard", "results"}
    /\ Mount(OrphanAll(tasks))
    /\ UNCHANGED <<dbVars, budget, serverVars>>

\* ------------------------------------------------------------ specification
\* the setup page is shown and no interview exists yet
Start(disturbances) ==
    /\ interviewRow = <<>>
    /\ questions = <<>>
    /\ view = "setup"
    /\ finalRole = ""
    /\ interview = <<>>
    /\ qaHistory = <<>>
    /\ currentQuestion = ""
    /\ currentQuestionId = 0
    /\ userAnswer = ""
    /\ isLoading = TRUE
    /\ isGenerating = FALSE
    /\ isSubmitting = FALSE
    /\ questionNumber = 1
    /\ tasks = EmptyBag
    /\ budget = disturbances
    /\ proxy = <<>>
    /\ store = EmptyStore
    /\ reply = <<>>
    /\ redirects = 0

Init == Start(MaxDisturbances)

InitWide == Start(WideDisturbances)

Next ==
    \/ ChooseRole
    \/ StartInterview
    \/ \E t \in BagToSet(tasks) : FetchInterviewRow(t)
    \/ \E t \in BagToSet(tasks) : FetchQuestions(t)
    \/ \E t \in BagToSet(tasks) : GenerateQuestion(t)
    \/ \E t \in BagToSet(tasks) : QuestionSaved(t)
    \/ \E t \in BagToSet(tasks) : EvaluateAnswer(t)
    \/ \E t \in BagToSet(tasks) : AnswerSaved(t)
    \/ \E t \in BagToSet(tasks) : FinalFeedback(t)
    \/ \E t \in BagToSet(tasks) : InterviewUpdated(t)
    \/ TypeAnswer
    \/ SubmitClick
    \/ SubmitEnter
    \/ Reload
    \/ Exit
    \/ OpenInterview

\* behaviours with at most MaxDisturbances disturbances
Spec == Init /\ [][Next]_vars

\* behaviours with at most WideDisturbances disturbances
SpecWide == InitWide /\ [][Next]_vars

\* ------------------------------------------- retry of generate-question
\* the rows of an interview whose first n questions were asked and answered
AnsweredQuestions(n) ==
    [k \in 1..n |->
        [question_order |-> k, question_text |-> "q",
         answers |-> <<NewAnswerRow("a", "f", EvalScore)>>]]

\* the history a session holds for these rows
AnsweredHistory(n) ==
    [k \in 1..n |->
        [question |-> "q", questionId |-> k, answer |-> "a",
         score |-> Some(EvalScore)]]

\* a call of generateNextQuestion has just failed before its insert: n
\* questions are answered, the next one is not written, the catch block has
\* run and the page shows neither a question nor a loader.  The call was made
\* by fetchInterview (resumed) or by handleSubmitAnswer.
InitRetry ==
    \E total \in 1..MaxTotal, n \in 0..MaxTotal - 1, resumed \in BOOLEAN :
        /\ n < total
        /\ n = 0 => resumed
        /\ interviewRow = <<NewInterviewRow(total)>>
        /\ questions = AnsweredQuestions(n)
        /\ view = "interview"
        /\ finalRole = ""
        /\ interview = <<[total_questions |-> total, status |-> "in_progress"]>>
        /\ qaHistory = AnsweredHistory(n)
        /\ currentQuestion = ""
        /\ currentQuestionId = IF resumed THEN 0 ELSE n
        /\ userAnswer = ""
        /\ isLoading = FALSE
        /\ isGenerating = FALSE
        /\ isSubmitting = FALSE
        /\ questionNumber = IF resumed /\ n > 0 THEN n + 1 ELSE IF n = 0 THEN 1 ELSE n
        /\ tasks = EmptyBag
        /\ budget = WideDisturbances
        /\ proxy = <<>>
        /\ store = EmptyStore
        /\ reply = <<>>
        /\ redirects = 0

\* the failures and reloads allowed while a failed finalize is retried
RetryDisturbances == 3

\* a call of generateFinalFeedback has just failed: every question is
\* answered, the interview is in_progress, the catch block has run and the
\* page shows neither a question nor a loader.  The call was made by
\* fetchInterview (resumed) or by handleSubmitAnswer.
InitFinalRetry ==
    \E total \in 1..MaxTotal, resumed \in BOOLEAN :
        /\ interviewRow = <<NewInterviewRow(total)>>
        /\ questions = AnsweredQuestions(total)
        /\ view = "interview"
        /\ finalRole = ""
        /\ interview = <<[total_questions |-> total, status |-> "in_progress"]>>
        /\ qaHistory = AnsweredHistory(total)
        /\ currentQuestion = ""
        /\ currentQuestionId = IF resumed THEN 0 ELSE total
        /\ userAnswer = ""
        /\ isLoading = FALSE
        /\ isGenerating = FALSE
        /\ isSubmitting = FALSE
        /\ questionNumber = IF resumed THEN total + 1 ELSE total
        /\ tasks = EmptyBag
        /\ budget = RetryDisturbances
        /\ proxy = <<>>
        /\ store = EmptyStore
        /\ reply = <<>>
        /\ redirects = 0

\* the steps of a session in which the user does nothing but reload the
\* page, open the interview and answer with the send button
NextRetry ==
    \/ \E t \in BagToSet(tasks) : FetchInterviewRow(t)
    \/ \E t \in BagToSet(tasks) : FetchQuestions(t)
    \/ \E t \in BagToSet(tasks) : GenerateQuestion(t)
    \/ \E t \in BagToSet(tasks) : QuestionSaved(t)
    \/ \E t \in BagToSet(tasks) : EvaluateAnswer(t)
    \/ \E t \in BagToSet(tasks) : AnswerSaved(t)
    \/ \E t \in BagToSet(tasks) : FinalFeedback(t)
    \/ \E t \in BagToSet(tasks) : InterviewUpdated(t)
    \/ TypeAnswer
    \/ SubmitClick
    \/ Reload
    \/ OpenInterview

\* behaviours after a failed generate-question, with at most
\* WideDisturbances further failures and reloads
SpecRetry == InitRetry /\ [][NextRetry]_vars

\* behaviours after a failed finalize, with at most RetryDisturbances
\* further failures and reloads
SpecFinalRetry == InitFinalRetry /\ [][NextRetry]_vars

\* the number of answered questions of the interviews finalized in SpecScores
ScoreTurns == 3
\* the scores their answers can carry, in tenths
Scores == {60, 70, 80, 90}

\* the persisted rows of questions answered with these scores
ScoredQuestions(scores) ==
    [k \in 1..Len(scores) |->
        [question_order |-> k, question_text |-> "q",
         answers |-> <<NewAnswerRow("a", "f", scores[k])>>]]

\* the Interview page is opened on a persisted interview all of whose
\* ScoreTurns questions are answered, with any scores, and which is not
\* finalized yet
InitScores ==
    \E scores \in [1..ScoreTurns -> Scores] :
        /\ interviewRow = <<NewInterviewRow(ScoreTurns)>>
        /\ questions = ScoredQuestions(scores)
        /\ view = "interview"
        /\ finalRole = ""
        /\ interview = <<>>
        /\ qaHistory = <<>>
        /\ currentQuestion = ""
        /\ currentQuestionId = 0
        /\ userAnswer = ""
        /\ isLoading = TRUE
        /\ isGenerating = FALSE
        /\ isSubmitting = FALSE
        /\ questionNumber = 1
        /\ tasks = SetToBag({FetchTask})
        /\ budget = MaxDisturbances
        /\ proxy = <<>>
        /\ store = EmptyStore
        /\ reply = <<>>
        /\ redirects = 0

\* the steps of a session in which the user does nothing but reload the
\* page and open the interview, and answers no question
NextFinalize ==
    \/ \E t \in BagToSet(tasks) : FetchInterviewRow(t)
    \/ \E t \in BagToSet(tasks) : FetchQuestions(t)
    \/ \E t \in BagToSet(tasks) : GenerateQuestion(t)
    \/ \E t \in BagToSet(tasks) : QuestionSaved(t)
    \/ \E t \in BagToSet(tasks) : FinalFeedback(t)
    \/ \E t \in BagToSet(tasks) : InterviewUpdated(t)
    \/ Reload
    \/ OpenInterview

\* the finalize of an interview with any per-turn scores
SpecScores == InitScores /\ [][NextFinalize]_vars

\* the call of t came back with a result and its write was executed (a call
\* that fails ends in its catch block and is outstanding no longer)
CallReturned(t) == BagCardinality(tasks') = BagCardinality(tasks)

\* the steps of a failure-free sequential run: the user chooses a role,
\* starts the interview and answers each question with the send button; every
\* read succeeds, every call of the proxy returns text (a question; an
\* evaluation or a feedback that parses or not) and every write is executed
NextSequential ==
    \/ ChooseRole
    \/ StartInterview /\ budget' = budget
    \/ \E t \in BagToSet(tasks) : FetchInterviewRow(t) /\ budget' = budget
    \/ \E t \in BagToSet(tasks) : FetchQuestions(t) /\ budget' = budget
    \/ \E t \in BagToSet(tasks) : GenerateQuestion(t) /\ budget' = budget
    \/ \E t \in BagToSet(tasks) : QuestionSaved(t)
    \/ \E t \in BagToSet(tasks) : EvaluateAnswer(t) /\ CallReturned(t)
    \/ \E t \in BagToSet(tasks) : AnswerSaved(t)
    \/ \E t \in BagToSet(tasks) : FinalFeedback(t) /\ CallReturned(t)
    \/ \E t \in BagToSet(tasks) : InterviewUpdated(t)
    \/ TypeAnswer
    \/ SubmitClick

\* the steps of the program in such a run: a call that is outstanding
\* returns
CallsReturn ==
    \E t \in BagToSet(tasks) :
        \/ FetchInterviewRow(t) /\ budget' = budget
        \/ FetchQuestions(t) /\ budget' = budget
        \/ GenerateQuestion(t) /\ budget' = budget
        \/ QuestionSaved(t)
        \/ EvaluateAnswer(t) /\ CallReturned(t)
        \/ AnswerSaved(t)
        \/ FinalFeedback(t) /\ CallReturned(t)
        \/ InterviewUpdated(t)

\* the user goes on: a role is chosen and the interview started in the end,
\* an answer is typed and sent in the end; every outstanding call returns
FairSequential ==
    /\ WF_vars(ChooseRole /\ finalRole' = "r")
    /\ SF_vars(StartInterview /\ budget' = budget)
    /\ WF_vars(TypeAnswer /\ userAnswer' = "a")
    /\ WF_vars(SubmitClick)
    /\ WF_vars(CallsReturn)

\* failure-free sequential runs, in which at most MaxDisturbances responses
\* of the generation service are not of the form the prompt asks for
SpecSequential ==
    Start(MaxDisturbances) /\ [][NextSequential]_vars /\ FairSequential

\* the page is at rest without a question to answer: no call is outstanding
\* and the Input Area is not rendered
AtRest ==
    /\ view = "interview"
    /\ tasks = EmptyBag
    /\ ~InputAreaVisible

\* the user resumes the session: the page at rest is loaded again
ResumeSession ==
    /\ AtRest
    /\ Mount(EmptyBag)
    /\ UNCHANGED <<dbVars, budget, serverVars>>

\* every step of the pages, and the resuming of a session at rest
NextProgress ==
    \/ Next
    \/ ResumeSession

\* a call that is outstanding returns, with a failure or a result
CallEnds ==
    \E t \in BagToSet(tasks) :
        \/ FetchInterviewRow(t)
        \/ FetchQuestions(t)
        \/ GenerateQuestion(t)
        \/ QuestionSaved(t)
        \/ EvaluateAnswer(t)
        \/ AnswerSaved(t)
        \/ FinalFeedback(t)
        \/ InterviewUpdated(t)

\* every outstanding call ends; the user opens the interview again when it
\* was left, resumes the session when the page is at rest, and types and
\* sends the answer "a" when the Input Area is rendered
FairProgress ==
    /\ WF_vars(CallEnds)
    /\ WF_vars(OpenInterview)
    /\ WF_vars(ResumeSession)
    /\ WF_vars(TypeAnswer /\ userAnswer' = "a")
    /\ WF_vars(SubmitClick)

\* the pages with a user who goes on, while at most MaxDisturbances calls
\* fail or return what the prompt did not ask for: from then on every call
\* succeeds
SpecProgress == Start(MaxDisturbances) /\ [][NextProgress]_vars /\ FairProgress

\* ----------------------------------------------------- Results: fetchResults
\* the call of fetchResults, suspended at its interviews select
ResultsTask == Task("results", "interview", TRUE, <<>>, 0, "", "")

\* the Results route was entered: the effect of the new component calls
\* fetchResults.  interview and isLoading are the useState values of the
\* Results component while it is the one mounted, and qaHistory is its qaList
ResultsMounted ==
    /\ view = "results"
    /\ isLoading
    /\ \A t \in BagToSet(tasks) : ~(t.kind = "results" /\ t.live)
    /\ tasks' = Add(tasks, ResultsTask)
    /\ UNCHANGED <<dbVars, view, redirects, finalRole, sessionVars, budget,
                   serverVars>>

\* the interviews select of fetchResults returned: an error leads to the
\* dashboard, a status other than completed to the Interview route, and
\* completed to setInterview and on to the questions select
FetchResultsRow(t) ==
    /\ t.kind = "results" /\ t.pc = "interview"
    /\ \/ /\ Fails
          /\ LeaveTo("dashboard", Remove(tasks, t))
          /\ UNCHANGED dbVars
       \/ /\ interviewRow[1].status # "completed"
          /\ RedirectToInterview(t)
          /\ UNCHANGED <<dbVars, budget, serverVars>>
       \/ /\ interviewRow[1].status = "completed"
          /\ interview' = IF t.live
                          THEN <<[total_questions |-> interviewRow[1].total_questions,
                                  status |-> interviewRow[1].status]>>
                          ELSE interview
          /\ tasks' = Replace(tasks, t, [t EXCEPT !.pc = "questions"])
          /\ UNCHANGED <<dbVars, view, redirects, finalRole, qaHistory,
                         currentQuestion, currentQuestionId, userAnswer,
                         isLoading, isGenerating, isSubmitting, questionNumber,
                         budget, serverVars>>

\* questionsData.map(q => ({...})) of fetchResults: one entry per question row
ResultsQA(rows) ==
    [k \in 1..Len(rows) |->
        [question |-> rows[k].question_text,
         answer |-> IF rows[k].answers = <<>> THEN ""
                    ELSE rows[k].answers[1].answer_text,
         feedback |-> IF rows[k].answers = <<>> THEN ""
                      ELSE rows[k].answers[1].ai_feedback,
         score |-> IF rows[k].answers = <<>> THEN 0
                   ELSE rows[k].answers[1].score]]

\* the questions select of fetchResults returned (its error is not looked
\* at): setQaList when there is data, and setIsLoading(false)
FetchResultsQuestions(t) ==
    /\ t.kind = "results" /\ t.pc = "questions"
    /\ \E r \in QuestionsRead \cup {FailedRead} :
        /\ IF r.ok THEN UNCHANGED <<budget, serverVars>> ELSE Fails
        /\ qaHistory' = IF t.live /\ r.ok THEN ResultsQA(r.rows) ELSE qaHistory
    /\ isLoading' = IF t.live THEN FALSE ELSE isLoading
    /\ tasks' = Remove(tasks, t)
    /\ UNCHANGED <<dbVars, view, redirects, finalRole, interview,
                   currentQuestion, currentQuestionId, userAnswer,
                   isGenerating, isSubmitting, questionNumber>>

\* the Results page renders the results: it is not loading and has its
\* interview
ResultsDisplayed ==
    /\ view = "results"
    /\ ~isLoading
    /\ interview # <<>>

\* the Dashboard button of the Results page: navigate('/dashboard')
ResultsToDashboard ==
    /\ ResultsDisplayed
    /\ LeaveTo("dashboard", tasks)
    /\ UNCHANGED <<dbVars, budget, serverVars>>

\* the dashboard lists the interview as completed and the user opens it:
\* navigate to the Results route
OpenResults ==
    /\ view = "dashboard"
    /\ interviewRow # <<>>
    /\ interviewRow[1].status = "completed"
    /\ LeaveTo("results", tasks)
    /\ UNCHANGED <<dbVars, budget, serverVars>>

\* the user loads the URL of the Results route of the interview: a new page,
\* every suspended call is gone
LoadResults ==
    /\ view \in {"interview", "dashboard"}
    /\ interviewRow # <<>>
    /\ LeaveTo("results", EmptyBag)
    /\ UNCHANGED <<dbVars, budget, serverVars>>

\* the Back button of the browser on the Interview page the Results page has
\* redirected to: navigate() pushes the new route, so the Results route is
\* the entry before it, and it is mounted again within the same page
BackToResults ==
    /\ view = "interview"
    /\ redirects = 1
    /\ Disturbed
    /\ LeaveTo("results", tasks)
    /\ UNCHANGED dbVars

\* the steps of the Interview page and of the Results page; the Interview
\* route is opened from the dashboard
NextRouting ==
    \/ ChooseRole
    \/ StartInterview
    \/ \E t \in BagToSet(tasks) : FetchInterviewRow(t)
    \/ \E t \in BagToSet(tasks) : FetchQuestions(t)
    \/ \E t \in BagToSet(tasks) : GenerateQuestion(t)
    \/ \E t \in BagToSet(tasks) : QuestionSaved(t)
    \/ \E t \in BagToSet(tasks) : EvaluateAnswer(t)
    \/ \E t \in BagToSet(tasks) : AnswerSaved(t)
    \/ \E t \in BagToSet(tasks) : FinalFeedback(t)
    \/ \E t \in BagToSet(tasks) : InterviewUpdated(t)
    \/ TypeAnswer
    \/ SubmitClick
    \/ SubmitEnter
    \/ Reload
    \/ Exit
    \/ OpenInterview /\ view = "dashboard"
    \/ ResultsMounted
    \/ \E t \in BagToSet(tasks) : FetchResultsRow(t)
    \/ \E t \in BagToSet(tasks) : FetchResultsQuestions(t)
    \/ ResultsToDashboard
    \/ OpenResults
    \/ LoadResults
    \/ BackToResults

\* both pages, with at most MaxDisturbances disturbances
SpecRouting == Start(MaxDisturbances) /\ [][NextRouting]_vars

\* the Interview page is opened on an interview that was cancelled (by a
\* write from outside the pages) after n of its questions were answered
InitCancelled ==
    \E total \in 1..MaxTotal, n \in 0..MaxTotal :
        /\ n <= total
        /\ interviewRow = <<[NewInterviewRow(total) EXCEPT !.status = "cancelled"]>>
        /\ questions = AnsweredQuestions(n)
        /\ view = "interview"
        /\ finalRole = ""
        /\ interview = <<>>
        /\ qaHistory = <<>>
        /\ currentQuestion = ""
        /\ currentQuestionId = 0
        /\ userAnswer = ""
        /\ isLoading = TRUE
        /\ isGenerating = FALSE
        /\ isSubmitting = FALSE
        /\ questionNumber = 1
        /\ tasks = SetToBag({FetchTask})
        /\ budget = MaxDisturbances
        /\ proxy = <<>>
        /\ store = EmptyStore
        /\ reply = <<>>
        /\ redirects = 0

\* the Interview page on a cancelled interview
SpecCancelled == InitCancelled /\ [][NextRetry]_vars

\* --------------------------------------------- the generation proxy: serve
\* the task types of the request body
RequestTypes == {"generate_question", "evaluate_answer", "generate_feedback"}

\* what the model gateway does with the proxy's fetch: status 0 stands for a
\* fetch that throws; content is <<>> when the body has no
\* choices[0].message.content, else <<text>>
Upstreams ==
    {[status |-> st, content |-> <<>>] : st \in {0, 400, 402, 429, 500, 503}}
    \cup {[status |-> 200, content |-> c] :
             c \in {<<>>, <<"">>, <<" ">>, <<"text">>}}

\* a request to the proxy and its circumstances: key tells whether
\* LOVABLE_API_KEY is configured, body whether req.json() yields the body
Requests ==
    [method : {"OPTIONS", "POST"}, key : BOOLEAN, body : BOOLEAN,
     type : RequestTypes, upstream : Upstreams]

\* the catch block: status 500 with the message of the error
ServerError(message) ==
    [status |-> 500, error |-> message, result |-> <<>>]

\* serve if it had no branch for the status 402
ServeWithout402(req) ==
    IF req.method = "OPTIONS"
    THEN [status |-> 200, error |-> "", result |-> <<>>]
    ELSE IF ~req.key THEN ServerError("LOVABLE_API_KEY is not configured")
    ELSE IF ~req.body THEN ServerError("message of the error of req.json()")
    ELSE IF req.upstream.status = 0
    THEN ServerError("message of the error of fetch")
    ELSE IF req.upstream.status # 200
    THEN IF req.upstream.status = 429
         THEN [status |-> 429,
               error |-> "Rate limit exceeded. Please try again in a moment.",
               result |-> <<>>]
         ELSE ServerError("AI gateway error")
    ELSE IF req.upstream.content \in {<<>>, <<"">>}
    THEN ServerError("No content in AI response")
    ELSE [status |-> 200, error |-> "", result |-> req.upstream.content]

\* the response of serve to req
Serve(req) ==
    IF req.method = "OPTIONS"
    THEN [status |-> 200, error |-> "", result |-> <<>>]
    ELSE IF ~req.key THEN ServerError("LOVABLE_API_KEY is not configured")
    ELSE IF ~req.body THEN ServerError("message of the error of req.json()")
    ELSE IF req.upstream.status = 0
    THEN ServerError("message of the error of fetch")
    ELSE IF req.upstream.status # 200
    THEN IF req.upstream.status = 429
         THEN [status |-> 429,
               error |-> "Rate limit exceeded. Please try again in a moment.",
               result |-> <<>>]
         ELSE IF req.upstream.status = 402
         THEN [status |-> 402,
               error |-> "AI credits exhausted. Please add more credits.",
               result |-> <<>>]
         ELSE ServerError("AI gateway error")
    ELSE IF req.upstream.content \in {<<>>, <<"">>}
    THEN ServerError("No content in AI response")
    ELSE [status |-> 200, error |-> "", result |-> req.upstream.content]

\* the proxy serves a request
ServeRequest ==
    /\ \E req \in Requests :
          proxy' = <<[request |-> req, response |-> Serve(req)]>>
    /\ UNCHANGED <<pageVars, store, reply>>

\* the proxy alone, serving one request after the other
SpecProxy == Start(MaxDisturbances) /\ [][ServeRequest]_vars

\* ------------------------------------- row level security of the tables
\* USING / WITH CHECK (auth.uid() = user_id) of the interviews policies
OwnInterviewAnyone(uid, row) == TRUE

OwnInterview(uid, row) == uid = row.user_id

\* EXISTS (SELECT 1 FROM interviews WHERE interviews.id = questions.interview_id
\* AND interviews.user_id = auth.uid()) of the questions policies, on the
\* tables st
OwnQuestion(st, uid, row) ==
    \E i \in st.interviews : i.id = row.interview_id /\ i.user_id = uid

\* EXISTS (SELECT 1 FROM questions q JOIN interviews i ON i.id = q.interview_id
\* WHERE q.id = answers.question_id AND i.user_id = auth.uid()) of the answers
\* policies
OwnAnswer(st, uid, row) ==
    \E q \in st.questions, i \in st.interviews :
        q.id = row.question_id /\ i.id = q.interview_id /\ i.user_id = uid

\* the rows a select of the table returns to uid
Visible(st, uid, table) ==
    IF table = "interviews"
    THEN {r \in st.interviews : OwnInterview(uid, r)}
    ELSE IF table = "questions"
    THEN {r \in st.questions : OwnQuestion(st, uid, r)}
    ELSE {r \in st.answers : OwnAnswer(st, uid, r)}

\* gen_random_uuid(): an id no row of the table has
FreshIds(table) == RowIds \ {r.id : r \in table}

\* what the database answers to a request of uid: the rows it returns
Reply(uid, op, table, rows) ==
    <<[user |-> uid, op |-> op, table |-> table, rows |-> rows]>>

\* uid selects the rows of a table
Select(uid) ==
    /\ \E table \in {"interviews", "questions", "answers"} :
          reply' = Reply(uid, "select", table, Visible(store, uid, table))
    /\ UNCHANGED store

\* uid inserts an interview with owner as its user_id
InsertInterview(uid) ==
    \E owner \in Users, id \in FreshIds(store.interviews) :
        LET row == [id |-> id, user_id |-> owner, status |-> "in_progress"]
        IN  IF OwnInterview(uid, row)
            THEN /\ store' = [store EXCEPT !.interviews = @ \cup {row}]
                 /\ reply' = Reply(uid, "insert", "interviews", {row})
            ELSE /\ UNCHANGED store
                 /\ reply' = Reply(uid, "insert", "interviews", {})

\* uid updates the interviews with the id: the rows the USING expression
\* lets it see; a new row that fails the expression is an error
UpdateInterview(uid) ==
    \E id \in RowIds, owner \in Users,
       status \in {"in_progress", "completed"} :
        LET old == {r \in store.interviews : r.id = id /\ OwnInterview(uid, r)}
            new == {[r EXCEPT !.user_id = owner, !.status = status] : r \in old}
        IN  IF \A r \in new : OwnInterview(uid, r)
            THEN /\ store' = [store EXCEPT
                                !.interviews = (@ \ old) \cup new]
                 /\ reply' = Reply(uid, "update", "interviews", new)
            ELSE /\ UNCHANGED store
                 /\ reply' = Reply(uid, "update", "interviews", {})

\* uid deletes the interviews with the id; ON DELETE CASCADE removes their
\* questions and the answers of these
DeleteInterview(uid) ==
    \E id \in RowIds :
        LET old == {r \in store.interviews : r.id = id /\ OwnInterview(uid, r)}
            gone == {q \in store.questions :
                        \E r \in old : q.interview_id = r.id}
        IN  /\ store' = [interviews |-> store.interviews \ old,
                         questions |-> store.questions \ gone,
                         answers |-> {a \in store.answers :
                                         \A q \in gone : a.question_id # q.id}]
            /\ reply' = Reply(uid, "delete", "interviews", old)

\* uid inserts a question for the interview with the id (the foreign key
\* wants the interview to exist, the policy wants it to be uid's)
InsertQuestion(uid) ==
    \E interview_id \in RowIds, id \in FreshIds(store.questions) :
        LET row == [id |-> id, interview_id |-> interview_id]
        IN  IF OwnQuestion(store, uid, row)
            THEN /\ store' = [store EXCEPT !.questions = @ \cup {row}]
                 /\ reply' = Reply(uid, "insert", "questions", {row})
            ELSE /\ UNCHANGED store
                 /\ reply' = Reply(uid, "insert", "questions", {})

\* uid inserts an answer to the question with the id
InsertAnswer(uid) ==
    \E question_id \in RowIds, id \in FreshIds(store.answers),
       text \in {"a", "b"} :
        LET row == [id |-> id, question_id |-> question_id,
                    answer_text |-> text]
        IN  IF OwnAnswer(store, uid, row)
            THEN /\ store' = [store EXCEPT !.answers = @ \cup {row}]
                 /\ reply' = Reply(uid, "insert", "answers", {row})
            ELSE /\ UNCHANGED store
                 /\ reply' = Reply(uid, "insert", "answers", {})

\* uid updates the answers with the id
UpdateAnswer(uid) ==
    \E id \in RowIds, question_id \in RowIds, text \in {"a", "b"} :
        LET old == {r \in store.answers : r.id = id /\ OwnAnswer(store, uid, r)}
            new == {[r EXCEPT !.question_id = question_id,
                              !.answer_text = text] : r \in old}
        IN  IF \A r \in new : OwnAnswer(store, uid, r)
            THEN /\ store' = [store EXCEPT !.answers = (@ \ old) \cup new]
                 /\ reply' = Reply(uid, "update", "answers", new)
            ELSE /\ UNCHANGED store
                 /\ reply' = Reply(uid, "update", "answers", {})

\* uid updates or deletes questions, or deletes answers: the tables have no
\* policy for these commands, so no row is touched
WriteWithoutPolicy(uid) ==
    /\ \E c \in {<<"update", "questions">>, <<"delete", "questions">>,
                 <<"delete", "answers">>} :
          reply' = Reply(uid, c[1], c[2], {})
    /\ UNCHANGED store

\* the requests of the users to the tables
NextOwnership ==
    \/ \E uid \in Users : Select(uid) /\ UNCHANGED <<pageVars, proxy>>
    \/ \E uid \in Users : InsertInterview(uid) /\ UNCHANGED <<pageVars, proxy>>
    \/ \E uid \in Users : UpdateInterview(uid) /\ UNCHANGED <<pageVars, proxy>>
    \/ \E uid \in Users : DeleteInterview(uid) /\ UNCHANGED <<pageVars, proxy>>
    \/ \E uid \in Users : InsertQuestion(uid) /\ UNCHANGED <<pageVars, proxy>>
    \/ \E uid \in Users : InsertAnswer(uid) /\ UNCHANGED <<pageVars, proxy>>
    \/ \E uid \in Users : UpdateAnswer(uid) /\ UNCHANGED <<pageVars, proxy>>
    \/ \E uid \in Users : WriteWithoutPolicy(uid) /\ UNCHANGED <<pageVars, proxy>>

\* the persistence layer under the requests of its users
SpecOwnership == Start(MaxDisturbances) /\ [][NextOwnership]_vars

\* ------------------------------------------------------------------ types
TypeOK ==
    /\ Len(interviewRow) <= 1
    /\ view \in {"setup", "interview", "results", "dashboard"}
    /\ Len(interview) <= 1
    /\ userAnswer \in AnswerTexts
    /\ finalRole \in Roles
    /\ Len(proxy) <= 1
    /\ Len(reply) <= 1
    /\ \A table \in {store.interviews, store.questions, store.answers} :
          \A r1, r2 \in table : r1.id \in RowIds /\ (r1.id = r2.id => r1 = r2)
    /\ \A q \in store.questions :
          \E i \in store.interviews : i.id = q.interview_id
    /\ \A a \in store.answers :
          \E q \in store.questions : q.id = a.question_id
    /\ view # "setup" => finalRole = ""
    /\ isLoading \in BOOLEAN /\ isGenerating \in BOOLEAN /\ isSubmitting \in BOOLEAN
    /\ questionNumber \in Nat
    /\ budget \in Nat
    /\ \A t \in BagToSet(tasks) :
          t.live => view = IF t.kind = "results" THEN "results" ELSE "interview"
    /\ redirects \in Nat

\* ======================================================================
\* Properties
\* ======================================================================
Created == interviewRow # <<>>
Total == interviewRow[1].total_questions
Status == interviewRow[1].status

\* the persisted questions that have an answer
Answered == {i \in QuestionIds : questions[i].answers # <<>>}
AllAnswered == Answered = QuestionIds

AggregatesNull ==
    /\ interviewRow[1].overall_score = Null
    /\ interviewRow[1].strengths = Null
    /\ interviewRow[1].improvements = Null
    /\ interviewRow[1].completed_at = Null

AggregatesSet ==
    /\ interviewRow[1].overall_score # Null
    /\ interviewRow[1].strengths # Null
    /\ interviewRow[1].improvements # Null
    /\ interviewRow[1].completed_at # Null

\* the suspended calls of the workflow steps (generate-question,
\* submit-answer, finalize), mounted or not
WorkflowTasks == {t \in BagToSet(tasks) : t.kind \in {"gen", "submit", "final"}}
Outstanding ==
    LET Count[S \in SUBSET WorkflowTasks] ==
            IF S = {} THEN 0
            ELSE LET t == CHOOSE x \in S : TRUE
                 IN  CopiesIn(t, tasks) + Count[S \ {t}]
    IN  Count[WorkflowTasks]

\* what fetchInterview decides in a fresh component on the persisted rows,
\* for every order in which the database may return them
Resumed ==
    {ResumeDecision(interviewRow[1], r,
                    [qaHistory |-> <<>>, questionNumber |-> 1,
                     currentQuestion |-> "", currentQuestionId |-> 0]) :
        r \in QuestionsRead}

\* a question is shown for answering and no submit is under way
AwaitingAnswer == InputAreaVisible /\ ~isSubmitting

\* ---------------------------------------------------------------- C1
\* C1: the state of the mounted session is the state resume derives from the
\* persisted rows: a question shown for answering is the one resume would
\* show, with the same history and question number, and an outstanding
\* generate-question or finalize call is the one resume would make, with
\* the same history.
C1_SessionIsResumeOfRows ==
    /\ AwaitingAnswer =>
         \E d \in Resumed :
            /\ d.call = "none"
            /\ d.currentQuestionId = currentQuestionId
            /\ d.qaHistory = qaHistory
            /\ d.questionNumber = questionNumber
    /\ \A t \in BagToSet(tasks) :
         (t.live /\ t.pc = "invoke" /\ t.kind \in {"gen", "final"}) =>
            \E d \in Resumed :
               /\ d.call = (IF t.kind = "gen" THEN "generateNextQuestion"
                            ELSE "generateFinalFeedback")
               /\ d.arg = t.hist

\* ---------------------------------------------------------------- C2
\* C2: the number of questions that have an answer is at most
\* total_questions, and no question has an order index above it.
C2_AnsweredAtMostTotal ==
    Created =>
       /\ Cardinality(Answered) <= Total
       /\ \A i \in QuestionIds : questions[i].question_order <= Total

\* ---------------------------------------------------------------- C3
\* C3: the interview is completed exactly when its answered-question count
\* equals total_questions and its aggregate fields are set; with every
\* answer persisted it is not in_progress.
C3_CompletedIffAllAnswered ==
    Created =>
       /\ (Status = "completed") <=>
             (Cardinality(Answered) = Total /\ AggregatesSet)
       /\ ~(Cardinality(Answered) = Total /\ Status = "in_progress")

\* ---------------------------------------------------------------- C4
\* C4: the question_order values of the persisted questions are 1..N in
\* creation order, without gap or duplicate.
C4_OrdersAreOneToN ==
    \A i \in QuestionIds : questions[i].question_order = i

\* ---------------------------------------------------------------- C5
\* C5: every question has at most one answer row.
C5_AtMostOneAnswer ==
    \A i \in QuestionIds : Len(questions[i].answers) <= 1

\* ---------------------------------------------------------------- C6
\* C6: at most one generate-question, submit-answer or finalize call is
\* outstanding for the interview.
C6_NoOverlap == Outstanding <= 1

\* ---------------------------------------------------------------- C7
\* the histories resume can pass on: one turn per persisted question
FullHistories ==
    {r.rows : r \in QuestionsRead}

\* C7: when fetchInterview reads the rows of an in_progress interview whose
\* N questions are all answered, it calls generateNextQuestion with a
\* history of these N questions when N < total_questions (N = 0 included),
\* which requests question N + 1, and generateFinalFeedback with that
\* history otherwise (N = total_questions); it calls nothing else and writes
\* nothing.
C7_ResumeAllAnswered ==
    [][\A t \in BagToSet(tasks) :
          (/\ FetchQuestions(t)
           /\ budget' = budget
           /\ Status = "in_progress"
           /\ AllAnswered)
          =>
          /\ dbVars' = dbVars
          /\ \E rows \in FullHistories :
               LET hist == ExistingQA(rows)
                   kind == IF Len(questions) < Total THEN "gen" ELSE "final"
               IN  /\ Len(hist) = Len(questions)
                   /\ tasks' = Add(Remove(tasks, t),
                                   Task(kind, "invoke", t.live, hist, 0, "", ""))
                   /\ t.live =>
                        /\ questionNumber' = Len(questions) + 1
                        /\ isGenerating'
                        /\ questions # <<>> => qaHistory' = hist]_vars

\* a resumed session requests question N + 1 after N >= 1 answered questions
C7_Witness ==
    /\ Created /\ Status = "in_progress"
    /\ AllAnswered
    /\ questions # <<>>
    /\ questionNumber = Len(questions) + 1
    /\ qaHistory \in {ExistingQA(rows) : rows \in FullHistories}
    /\ tasks = SetToBag({Task("gen", "invoke", TRUE, qaHistory, 0, "", "")})

\* ---------------------------------------------------------------- C8
\* C8: when fetchInterview reads the rows of an in_progress interview whose
\* last question has no answer, that question becomes the current one, the
\* question number is its question_order, the history is the questions
\* before it, and nothing is called and nothing written.
C8_ResumeLastUnanswered ==
    [][\A t \in BagToSet(tasks) :
          (/\ FetchQuestions(t)
           /\ budget' = budget
           /\ t.live
           /\ Status = "in_progress"
           /\ questions # <<>>
           /\ questions[Len(questions)].answers = <<>>)
          =>
          /\ dbVars' = dbVars
          /\ tasks' = Remove(tasks, t)
          /\ currentQuestionId' = Len(questions)
          /\ currentQuestion' = questions[Len(questions)].question_text
          /\ questionNumber' = questions[Len(questions)].question_order
          /\ Len(qaHistory') = Len(questions) - 1
          /\ \A k \in 1..Len(qaHistory') : qaHistory'[k].questionId = k]_vars

\* ---------------------------------------------------------------- C9
\* C9: when fetchInterview reads an interviews row whose status is
\* completed, it navigates to the results page, starts no call of the
\* generation service and writes nothing; the session it leaves holds no
\* interview, no question and no history.
C9_ResumeOfCompleted ==
    [][\A t \in BagToSet(tasks) :
          (/\ FetchInterviewRow(t)
           /\ budget' = budget
           /\ Status = "completed")
          =>
          /\ view' = "results"
          /\ dbVars' = dbVars
          /\ tasks' = OrphanAll(Remove(tasks, t))
          /\ interview' = <<>>
          /\ currentQuestion' = ""
          /\ qaHistory' = <<>>
          /\ ~isGenerating' /\ ~isSubmitting']_vars

\* the Interview page is mounted on a completed interview and its
\* fetchInterview awaits the interviews row
C9_Witness ==
    /\ Created /\ Status = "completed"
    /\ view = "interview"
    /\ \E t \in BagToSet(tasks) : t.kind = "fetch" /\ t.pc = "interview" /\ t.live

\* --------------------------------------------------------------- C10
\* C10: overall_score, strengths, improvements and completed_at are all
\* null while the interview is in_progress and all set when it is
\* completed; no state has only some of them set.
C10_AggregatesTogether ==
    Created =>
       /\ Status \in {"in_progress", "completed"}
       /\ Status = "in_progress" => AggregatesNull
       /\ Status = "completed" => AggregatesSet

\* the interview was finalized
C10_Witness ==
    /\ Created /\ Status = "completed"
    /\ AggregatesSet
    /\ view = "results"

\* --------------------------------------------------------------- C11
\* C11: once the interview is completed, no step changes its status,
\* overall_score, strengths, improvements or completed_at.
C11_AggregatesWrittenOnce ==
    [][(Created /\ Status = "completed") => interviewRow' = interviewRow]_vars

\* --------------------------------------------------------------- C12
\* C12: once the interview is completed, no step creates a question row or
\* an answer row.
C12_NoRowsAfterCompleted ==
    [][(Created /\ Status = "completed") => questions' = questions]_vars

\* --------------------------------------------------------------- C13
\* C13: after a generate-question call failed before its insert, whatever
\* reloads and retries follow, no two questions have the same
\* question_order and no order index is skipped.
C13_RetryKeepsOrders ==
    /\ \A i, j \in QuestionIds :
          i # j => questions[i].question_order # questions[j].question_order
    /\ {questions[i].question_order : i \in QuestionIds} = QuestionIds

\* --------------------------------------------------------------- C18
\* the answers row a submit-answer step of call t has just inserted
InsertedAnswer(t) ==
    questions'[t.qid].answers[Len(questions'[t.qid].answers)]

\* the evaluate_answer call of t returns resp and the answer is inserted
EvaluationStep(t, resp) ==
    /\ t.kind = "submit" /\ t.pc = "invoke"
    /\ EvaluateAnswerReturns(t, resp)

\* C18 as stated: every response that is not a record with both a score
\* and a feedback is persisted with score 5 and the raw text as feedback.
C18_MalformedAlwaysDefault ==
    [][\A t \in BagToSet(tasks) :
         \A resp \in EvalResponses \ WellFormedEvaluations :
            EvaluationStep(t, resp) =>
               /\ InsertedAnswer(t).score = DefaultScore
               /\ InsertedAnswer(t).ai_feedback = resp.raw]_vars

\* C18 amended: a response that JSON.parse rejects, or a record with
\* neither field, is persisted with score 5 and the raw text as feedback; a
\* record with only a score keeps its score and gets the raw text as
\* feedback; a record with only a feedback keeps its feedback and gets
\* score 5.  In each case one answers row is inserted with the answer text
\* and the call goes on as after a well-formed response.
C18_MalformedEvaluation ==
    [][\A t \in BagToSet(tasks) :
         \A resp \in EvalResponses \ WellFormedEvaluations :
            EvaluationStep(t, resp) =>
               /\ Len(questions'[t.qid].answers) = Len(questions[t.qid].answers) + 1
               /\ InsertedAnswer(t).answer_text = t.answer
               /\ (~resp.json \/ (resp.score = 0 /\ resp.feedback = "")) =>
                     /\ InsertedAnswer(t).score = DefaultScore
                     /\ InsertedAnswer(t).ai_feedback = resp.raw
               /\ (resp.json /\ resp.score # 0 /\ resp.feedback = "") =>
                     /\ InsertedAnswer(t).score = resp.score
                     /\ InsertedAnswer(t).ai_feedback = resp.raw
               /\ (resp.json /\ resp.score = 0 /\ resp.feedback # "") =>
                     /\ InsertedAnswer(t).score = DefaultScore
                     /\ InsertedAnswer(t).ai_feedback = resp.feedback
               /\ \E u \in BagToSet(tasks') :
                     /\ u.kind = "submit" /\ u.pc = "saved"
                     /\ u.qid = t.qid /\ u.hist = t.hist
                     /\ u.score = InsertedAnswer(t).score]_vars

\* an answer was persisted from a response that JSON.parse rejected
C18_Witness ==
    \E i \in QuestionIds :
        \E k \in 1..Len(questions[i].answers) :
            /\ questions[i].answers[k].ai_feedback = "text"
            /\ questions[i].answers[k].score = DefaultScore

\* --------------------------------------------------------------- C14
\* the generate-question call t ends at its invoke: the generation service
\* returned an error
GenerationError(t) ==
    /\ GenerateQuestion(t)
    /\ BagCardinality(tasks') < BagCardinality(tasks)

\* C14: when generate-question's call of the generation service returns an
\* error, no question row is inserted, nothing else is persisted, and the
\* current question, its id, the question number and the history are
\* unchanged; the call ends without calling anything.
C14_GenerationErrorKeepsState ==
    [][\A t \in BagToSet(tasks) :
         GenerationError(t) =>
            /\ dbVars' = dbVars
            /\ UNCHANGED <<currentQuestion, currentQuestionId, questionNumber,
                           qaHistory, interview, userAnswer, view>>
            /\ tasks' = Remove(tasks, t)
            /\ t.live => ~isGenerating']_vars

\* a generate-question call has failed: the page is loaded, shows no
\* question, no call is outstanding and the next question is not written
C14_Witness ==
    /\ Created /\ Status = "in_progress"
    /\ view = "interview" /\ ~isLoading /\ interview # <<>>
    /\ tasks = EmptyBag
    /\ currentQuestion = "" /\ ~isGenerating
    /\ AllAnswered /\ Len(questions) < Total
    /\ Len(qaHistory) = Len(questions)

\* --------------------------------------------------------------- C15
\* C15: no question row has an empty question_text (a response without
\* usable text makes generate-question fail before its insert), so resume
\* never shows an empty question.
C15_NoBlankQuestion ==
    \A i \in QuestionIds : questions[i].question_text # ""

\* --------------------------------------------------------------- C16
\* the submit-answer call t ends at its invoke or insert: the evaluation
\* call or the answers insert failed
SubmitError(t) ==
    /\ EvaluateAnswer(t)
    /\ BagCardinality(tasks') < BagCardinality(tasks)

\* C16: when the evaluate_answer call or the answers insert of submit-answer
\* fails, no answer row is persisted, the history, the current question, its
\* id and the typed answer are unchanged, nothing is called, and the submit
\* is no longer marked outstanding, so that a shown question with its typed
\* answer can be submitted again.
C16_SubmitErrorKeepsState ==
    [][\A t \in BagToSet(tasks) :
         SubmitError(t) =>
            /\ dbVars' = dbVars
            /\ UNCHANGED <<qaHistory, currentQuestion, currentQuestionId,
                           userAnswer, questionNumber, interview, view>>
            /\ tasks' = Remove(tasks, t)
            /\ t.live => ~isSubmitting'
            /\ (t.live /\ InputAreaVisible /\ userAnswer = t.answer) =>
                  /\ InputAreaVisible'
                  /\ Trim(userAnswer') # ""
                  /\ ~isSubmitting']_vars

\* a submit has failed: the question is still shown with the typed answer,
\* it has no answer row and no call is outstanding
C16_Witness ==
    /\ Created /\ Status = "in_progress"
    /\ InputAreaVisible
    /\ Trim(userAnswer) # "" /\ ~isSubmitting
    /\ tasks = EmptyBag
    /\ budget < MaxDisturbances
    /\ currentQuestionId \in QuestionIds
    /\ questions[currentQuestionId].answers = <<>>

\* --------------------------------------------------------------- C17
\* C17: after a finalize that failed, the answers are all persisted and the
\* interview is in_progress with its aggregate fields null until a retry
\* completes it; the retries through resume call neither generate-question
\* nor submit-answer and insert no question and no answer row.
C17_FinalizeRetryOnlyFinalizes ==
    [][/\ questions' = questions
       /\ \A t \in BagToSet(tasks') : t.kind \in {"fetch", "final"}
       /\ interviewRow'[1].status = "in_progress" =>
             /\ interviewRow'[1].overall_score = Null
             /\ interviewRow'[1].strengths = Null
             /\ interviewRow'[1].improvements = Null
             /\ interviewRow'[1].completed_at = Null]_vars

\* --------------------------------------------------------------- C19
\* the per-turn scores of a history, in tenths
TurnScores(history) == [k \in 1..Len(history) |-> history[k].score[1]]

RECURSIVE TotalOf(_)
TotalOf(scores) ==
    IF scores = <<>> THEN 0 ELSE scores[1] + TotalOf(Tail(scores))

\* m (in tenths) is the mean of the scores rounded to one decimal place: no
\* other tenth is nearer to the mean, and a mean half-way between two tenths
\* is rounded up
IsMeanToOneDecimal(m, scores) ==
    LET n == Len(scores)
        d == 2 * (m * n - TotalOf(scores))
    IN  -n < d /\ d <= n

\* the step in which the finalize call t receives resp and updates the row
FinalizeStep(t, resp) ==
    /\ FinalFeedback(t)
    /\ FinalFeedbackReturns(t, resp)

\* C19: when the generate_feedback response does not parse, the finalize
\* persists as overall_score the arithmetic mean of the per-turn scores of
\* its history rounded to one decimal place (7.0 for 8, 6, 7 and 7.3 for
\* 7, 9, 6), with empty strengths and improvements lists.
C19_FallbackIsRoundedMean ==
    [][\A t \in BagToSet(tasks), resp \in FeedbackResponses :
          (FinalizeStep(t, resp) /\ ~resp.json) =>
              LET scores == TurnScores(t.hist)
                  overall == interviewRow'[1].overall_score[1]
              IN  /\ IsMeanToOneDecimal(overall, scores)
                  /\ scores = <<80, 60, 70>> => overall = 70
                  /\ scores = <<70, 90, 60>> => overall = 73
                  /\ interviewRow'[1].strengths = Some(<<>>)
                  /\ interviewRow'[1].improvements = Some(<<>>)
                  /\ interviewRow'[1].status = "completed"]_vars

\* the interview answered with 7, 9, 6 was finalized by the fallback
C19_Witness ==
    /\ Created /\ Status = "completed"
    /\ Len(questions) = 3
    /\ \A i \in QuestionIds : questions[i].answers # <<>>
    /\ [i \in QuestionIds |-> questions[i].answers[1].score] = <<70, 90, 60>>
    /\ interviewRow[1].overall_score = Some(73)
    /\ interviewRow[1].strengths = Some(<<>>)
    /\ budget < MaxDisturbances

\* --------------------------------------------------------------- C20
\* a submit-answer call that was not outstanding before the step (a call
\* starts in a mounted component)
NewSubmitCall(t) ==
    /\ t.kind = "submit" /\ t.pc = "invoke" /\ t.live
    /\ CopiesIn(t, tasks') > CopiesIn(t, tasks)

\* C20: a submit (Enter or the send button) of an answer that is blank after
\* trimming starts no evaluation call, inserts no answer and changes neither
\* the persisted nor the session state, and no answer that is blank after
\* trimming is ever evaluated or stored; a start of an interview with a role
\* that is blank after trimming inserts no interviews row and leaves the
\* Setup page and all state as they are.
C20_BlankInputRejected ==
    [][/\ ((SubmitEnter \/ SubmitClick) /\ Trim(userAnswer) = "") =>
             UNCHANGED <<dbVars, view, sessionVars, tasks>>
       /\ (view = "interview" /\ Trim(userAnswer) = "") =>
             \A t \in BagToSet(tasks') : ~NewSubmitCall(t)
       /\ \A t \in BagToSet(tasks') :
             t.kind = "submit" => Trim(t.answer) # ""
       /\ \A i \in 1..Len(questions') :
             \A k \in 1..Len(questions'[i].answers) :
                Trim(questions'[i].answers[k].answer_text) # ""
       /\ (StartInterview /\ Trim(finalRole) = "") =>
             UNCHANGED <<dbVars, view, sessionVars, tasks>>
       /\ (view = "setup" /\ Trim(finalRole) = "") =>
             /\ interviewRow' = <<>>
             /\ view' = "setup"
             /\ tasks' = EmptyBag]_vars

\* a question is shown, the answer box holds white space only and no
\* submit is outstanding (Enter is pressed in this state)
C20_Witness ==
    /\ InputAreaVisible
    /\ userAnswer = " "
    /\ ~isSubmitting
    /\ \A t \in BagToSet(tasks) : t.kind # "submit"
    /\ Created /\ Status = "in_progress"

\* --------------------------------------------------------------- C21
\* the scores of the persisted answers, in tenths (the first answer of each
\* question)
PersistedScores ==
    [i \in QuestionIds |-> questions[i].answers[1].score]

\* T question rows with the orders 1..T, one answer row for each
SequentialRows ==
    /\ Len(questions) = Total
    /\ \A i \in QuestionIds :
          /\ questions[i].question_order = i
          /\ Len(questions[i].answers) = 1

\* a failure-free sequential run ends completed, and an interview that is
\* completed has T questions with the orders 1..T, one answer each, and as
\* overall_score the value of the service or the rounded mean of the scores
C21_ServiceValueOrMean ==
    /\ <>(Created /\ Status = "completed")
    /\ []((Created /\ Status = "completed") =>
             /\ SequentialRows
             /\ \/ interviewRow[1].overall_score = Some(FeedbackScore)
                \/ IsMeanToOneDecimal(interviewRow[1].overall_score[1],
                                      PersistedScores))

\* C21: a failure-free sequential run on an interview with total_questions
\* = T ends with status completed, T question rows with the orders 1..T and
\* one answer row for each; the finalize writes as overall_score the
\* overallScore of the response when it carries one, 5 when the response
\* parses to a value that carries none, and the rounded mean of the turn
\* scores when the response does not parse or is null.
C21_SequentialRun ==
    /\ <>(Created /\ Status = "completed")
    /\ []((Created /\ Status = "completed") => SequentialRows)
    /\ [][\A t \in BagToSet(tasks), resp \in FeedbackResponses :
             FinalizeStep(t, resp) =>
                LET overall == interviewRow'[1].overall_score[1]
                IN  /\ TurnScores(t.hist) = PersistedScores
                    /\ resp \in WellFormedFeedbacks =>
                          overall = resp.overallScore
                    /\ (resp.json /\ ~resp.isNull /\ resp.overallScore = 0) =>
                          overall = DefaultScore
                    /\ (~resp.json \/ resp.isNull) =>
                          IsMeanToOneDecimal(overall, PersistedScores)]_vars

\* a run of MaxTotal questions has ended, with the rounded mean as overall
\* score
C21_Witness ==
    /\ Created /\ Status = "completed"
    /\ Total = MaxTotal
    /\ SequentialRows
    /\ interviewRow[1].strengths = Some(<<>>)
    /\ interviewRow[1].overall_score = Some(EvalScore)
    /\ view = "results"

\* --------------------------------------------------------------- C22
\* C22: while the status of the interview is cancelled no step changes the
\* interviews row (its status and its overall score included) and no step
\* inserts a question or an answer.
C22_CancelledIsTerminal ==
    [][(Created /\ Status = "cancelled") =>
          /\ interviewRow' = interviewRow
          /\ questions' = questions]_vars

\* --------------------------------------------------------------- C23
\* C23: the score of every persisted answer and the overall_score of the
\* interview, once written, lie in 1..10 (in tenths: 10..100).
C23_ScoresInRange ==
    /\ \A i \in QuestionIds :
          \A k \in 1..Len(questions[i].answers) :
             questions[i].answers[k].score \in ScoreRange
    /\ (Created /\ interviewRow[1].overall_score # Null) =>
          interviewRow[1].overall_score[1] \in ScoreRange

\* --------------------------------------------------------------- C24
\* the proxy got as far as its call of the model gateway
UpstreamCalled(req) == req.method = "POST" /\ req.key /\ req.body

\* C24: to a request, the proxy answers 429 with the rate-limit message when
\* the gateway answered 429, 402 with the credits message when the gateway
\* answered 402, and 500 with an error message after every other failure
\* (another status of the gateway, a fetch that throws, no API key, a body
\* that cannot be read, a response of the gateway without content); it
\* answers with a result exactly when the gateway answered 200 with
\* non-empty content, and the result is that content.
C24_ProxyOutcomes ==
    proxy # <<>> =>
       LET req == proxy[1].request
           resp == proxy[1].response
           up == req.upstream
           succeeded == /\ UpstreamCalled(req) /\ up.status = 200
                        /\ up.content # <<>> /\ up.content # <<"">>
       IN  req.method = "POST" =>
              /\ (UpstreamCalled(req) /\ up.status = 429) =>
                    /\ resp.status = 429
                    /\ resp.error = "Rate limit exceeded. Please try again in a moment."
              /\ (UpstreamCalled(req) /\ up.status = 402) =>
                    /\ resp.status = 402
                    /\ resp.error = "AI credits exhausted. Please add more credits."
              /\ (~succeeded /\ ~(UpstreamCalled(req) /\ up.status \in {402, 429})) =>
                    resp.status = 500 /\ resp.error # ""
              /\ succeeded <=> resp.result # <<>>
              /\ succeeded => resp.status = 200 /\ resp.result = up.content
              /\ resp.status # 200 => resp.result = <<>> /\ resp.error # ""

\* the gateway answered 402 and the proxy has answered
C24_Witness ==
    /\ proxy # <<>>
    /\ UpstreamCalled(proxy[1].request)
    /\ proxy[1].request.upstream.status = 402
    /\ proxy[1].response.status = 402

\* --------------------------------------------------------------- C25
\* the interviews of the tables st that uid owns, with the questions and
\* answers that descend from them
RowsOf(st, uid) ==
    LET mine == {i \in st.interviews : i.user_id = uid}
        myQuestions == {q \in st.questions :
                           \E i \in mine : i.id = q.interview_id}
    IN  [interviews |-> mine,
         questions |-> myQuestions,
         answers |-> {a \in st.answers :
                         \E q \in myQuestions : q.id = a.question_id}]

\* C25: a request issued as one user returns and changes only rows of that
\* user: the rows of every other user (interviews owned, questions and
\* answers descending from them) are the same after the request, no row of
\* another user is in the reply, and a select returns exactly the user's own
\* rows of the table, whatever the other users have stored or requested.
C25_OwnershipEnforced ==
    [][LET r == reply'[1]
       IN  /\ \A other \in Users \ {r.user} :
                 RowsOf(store', other) = RowsOf(store, other)
           /\ r.rows \subseteq RowsOf(store', r.user)[r.table]
                        \cup RowsOf(store, r.user)[r.table]
           /\ r.op = "select" =>
                 r.rows = RowsOf(store, r.user)[r.table]]_vars

\* A owns an interview with a question and an answer, and B, selecting the
\* answers, got none
C25_Witness ==
    /\ reply # <<>>
    /\ reply[1].user = "B" /\ reply[1].op = "select"
    /\ reply[1].table = "answers" /\ reply[1].rows = {}
    /\ RowsOf(store, "A").answers # {}
    /\ RowsOf(store, "B").interviews # {}

\* --------------------------------------------------------------- C26
\* the calls that are outstanding after the step and were not before it
StartedCalls ==
    {u \in BagToSet(tasks') : CopiesIn(u, tasks') > CopiesIn(u, tasks)}

\* C26: the step that ends a successful submit-answer starts exactly one
\* call: generateFinalFeedback if the history with the new answer has exactly
\* total_questions entries, else generateNextQuestion for the question after
\* this history; both get this history, and the answer row of the submit is
\* persisted when the step is taken.
C26_OneFollowUp ==
    [][\A t \in BagToSet(tasks) :
          AnswerSaved(t) =>
             LET n == Len(t.hist) + 1
             IN  /\ Cardinality(StartedCalls) = 1
                 /\ \A u \in StartedCalls :
                       /\ CopiesIn(u, tasks') = CopiesIn(u, tasks) + 1
                       /\ u.pc = "invoke"
                       /\ u.kind = IF n = Total THEN "final" ELSE "gen"
                       /\ Len(u.hist) = n
                       /\ u.hist[n].answer = t.answer
                 /\ \E a \in 1..Len(questions[t.qid].answers) :
                       /\ questions[t.qid].answers[a].answer_text = t.answer
                       /\ questions[t.qid].answers[a].score = t.score
                 /\ questions' = questions]_vars

\* --------------------------------------------------------------- C27
\* the columns of the interviews row the Setup page writes
Configuration(row) ==
    [user_id |-> row.user_id, job_role |-> row.job_role,
     difficulty |-> row.difficulty, interview_type |-> row.interview_type,
     total_questions |-> row.total_questions]

\* old is the beginning of new
IsPrefix(old, new) ==
    /\ Len(old) <= Len(new)
    /\ \A k \in 1..Len(old) : new[k] = old[k]

\* C27: once the interview exists, no step changes its user_id, job_role,
\* difficulty, interview_type or total_questions; a step that changes the
\* interviews row is the update of a finalize and changes nothing but
\* status, overall_score, strengths, improvements and completed_at; no step
\* changes or removes a question row or an answer row that exists (rows are
\* only added).
C27_ConfigurationFixed ==
    [][Created =>
          /\ Created'
          /\ Configuration(interviewRow'[1]) = Configuration(interviewRow[1])
          /\ interviewRow' # interviewRow =>
                /\ \E t \in BagToSet(tasks) : FinalFeedback(t)
                /\ questions' = questions
                /\ DOMAIN interviewRow'[1] = DOMAIN interviewRow[1]
          /\ Len(questions') >= Len(questions)
          /\ \A i \in QuestionIds :
                /\ questions'[i].question_order = questions[i].question_order
                /\ questions'[i].question_text = questions[i].question_text
                /\ IsPrefix(questions[i].answers, questions'[i].answers)]_vars

\* the interview is finalized and has its questions and their answers
C27_Witness ==
    /\ Created /\ Status = "completed"
    /\ Configuration(interviewRow[1]) = Configuration(NewInterviewRow(MaxTotal))
    /\ Len(questions) >= MaxTotal
    /\ AllAnswered
    /\ AggregatesSet

\* --------------------------------------------------------------- C28
\* C28: an interview that is in_progress is completed in the end, when the
\* calls succeed from some point on and the user keeps resuming the session
\* and sends a non-empty answer whenever a question is shown.
C28_ProgressPossible ==
    (Created /\ Status = "in_progress") ~> (Created /\ Status = "completed")

\* --------------------------------------------------------------- C29
\* the evaluate_answer part: of a response that parses, a missing score (or
\* 0) is stored as 5 and a score is stored as it is; a missing feedback (or
\* an empty one) is stored as the whole response text
PartialEvaluationDefaults ==
    \A t \in BagToSet(tasks) :
        \A resp \in EvalResponses :
            (EvaluationStep(t, resp) /\ resp.json) =>
                /\ resp.score = 0 => InsertedAnswer(t).score = DefaultScore
                /\ resp.score # 0 => InsertedAnswer(t).score = resp.score
                /\ resp.feedback = "" =>
                      InsertedAnswer(t).ai_feedback = resp.raw
                /\ resp.feedback # "" =>
                      InsertedAnswer(t).ai_feedback = resp.feedback

\* the finalize of call t with resp writes 5 and the lists of resp
FinalizeTakesDefault(t, resp) ==
    /\ interviewRow'[1].overall_score = Some(DefaultScore)
    /\ interviewRow'[1].strengths = Some(resp.strengths)
    /\ interviewRow'[1].improvements = Some(resp.improvements)
    /\ resp.strengths = <<>> /\ resp.improvements = <<>>

\* C29 as stated: every generate_feedback response that JSON.parse accepts
\* and that carries no overallScore (or 0) is persisted with overall_score 5
\* and empty strengths and improvements; an evaluate_answer response that
\* parses gets score 5 for a missing score (or 0) and the whole response
\* text for a missing (or empty) feedback.
C29_ParseableTakesDefault ==
    [][/\ \A t \in BagToSet(tasks), resp \in FeedbackResponses :
             (FinalizeStep(t, resp) /\ resp.json /\ resp.overallScore = 0) =>
                 FinalizeTakesDefault(t, resp)
       /\ PartialEvaluationDefaults]_vars

\* C29 amended: a generate_feedback response that parses to a value other
\* than null and carries no overallScore (or 0) is persisted with
\* overall_score 5, whatever the turn scores are, and with empty strengths
\* and improvements; the response null, which parses too, is persisted like
\* one that does not parse, with the rounded mean of the turn scores.  The
\* evaluate_answer part is as stated.
C29_PartialResponses ==
    [][/\ \A t \in BagToSet(tasks), resp \in FeedbackResponses :
             (FinalizeStep(t, resp) /\ resp.json /\ resp.overallScore = 0) =>
                 IF resp.isNull
                 THEN /\ IsMeanToOneDecimal(interviewRow'[1].overall_score[1],
                                            TurnScores(t.hist))
                      /\ interviewRow'[1].strengths = Some(<<>>)
                      /\ interviewRow'[1].improvements = Some(<<>>)
                 ELSE FinalizeTakesDefault(t, resp)
       /\ PartialEvaluationDefaults]_vars

\* the answer of the interview was evaluated by a record with a score and no
\* feedback, and the finalize got 5 from a record without overallScore,
\* where the mean of the turn scores is another value
C29_Witness ==
    /\ Created /\ Status = "completed"
    /\ interviewRow[1].overall_score = Some(DefaultScore)
    /\ interviewRow[1].strengths = Some(<<>>)
    /\ Len(questions) = 1
    /\ Len(questions[1].answers) = 1
    /\ questions[1].answers[1].score = EvalScore
    /\ questions[1].answers[1].ai_feedback = "{score}"
    /\ EvalScore # DefaultScore

\* --------------------------------------------------------------- C30
\* C30: the pages redirect at most once in a row; the Interview page, when
\* its read of the row succeeds, goes to the Results route exactly when the
\* status is completed and stays otherwise; the Results page, when its read
\* succeeds, goes to the Interview route exactly when the status is not
\* completed and stays otherwise; results are rendered only for a completed
\* interview.
C30_RoutingSettles ==
    /\ [](redirects <= 1)
    /\ [](ResultsDisplayed => (Created /\ Status = "completed"))
    /\ [][\A t \in BagToSet(tasks) :
             /\ (t.live /\ FetchInterviewRow(t) /\ budget' = budget) =>
                   /\ view' = "results" <=> Status = "completed"
                   /\ view' = "interview" <=> Status # "completed"
             /\ (t.live /\ FetchResultsRow(t) /\ budget' = budget) =>
                   /\ view' = "interview" <=> Status # "completed"
                   /\ view' = "results" <=> Status = "completed"]_vars

====
